---------------------------- MODULE Spec2Model ----------------------------
(***************************************************************************)
(* pi-display (src/src/main.rs): a terminal clock with a blinking          *)
(* separator and a weather panel fed by a blocking HTTP fetch.             *)
(*                                                                         *)
(* Three specifications share the variables below:                         *)
(*   Spec       the display loop of main() (startup, draw, poll, refresh)  *)
(*   SpecFetch  fetch_weather and render_weather applied to a family of    *)
(*              HTTP outcomes                                              *)
(*   SpecBlink  the blink phase computed from a signed ms timestamp        *)
(*                                                                         *)
(* Temperatures (f64 in the source) are integers in tenths of a degree;    *)
(* strings that the program parses (the daily dates) are sequences of      *)
(* one-character strings, so that parsing really reads characters.         *)
(***************************************************************************)
EXTENDS Integers, Sequences, FiniteSets, TLC

VARIABLES
    pc,                 \* position of the single control thread
    status,             \* "running" | "ok" | "err" | "panic": how the process ended
    weather,            \* main: let mut weather: Option<WeatherData>
    last_weather_fetch, \* main: let mut last_weather_fetch (Instant, ms)
    clock,              \* the monotonic clock Instant::now() reads (ms)
    now_ms,             \* the wall clock value now.timestamp_millis() of the iteration
    show_colon,         \* main: let show_colon
    frame,              \* what the last terminal.draw put on the screen
    resp,               \* the HTTP outcome the last fetch_weather call met
    result,             \* what the last fetch_weather call returned
    lastEvent,          \* what the last event::poll / event::read gave
    iter,               \* number of loop iterations started
    hist                \* history of the run (ghost): counters and instants

vars == <<pc, status, weather, last_weather_fetch, clock, now_ms, show_colon,
          frame, resp, result, lastEvent, iter, hist>>

---------------------------------------------------------------------------
(* Bounds of the model *)

\* longest daily array of a modelled response
MaxDaily == 9
\* weather codes are drawn from -CodeSlack .. U8Max + CodeSlack
CodeSlack == 3
\* blink timestamps are drawn from -BlinkRange .. BlinkRange
BlinkRange == 2600
\* loop iterations of one run
MaxIter == 3
\* long stalls (suspension, a blocked terminal) of the process in one run
MaxStalls == 2

---------------------------------------------------------------------------
(* Small helpers *)

Min(a, b) == IF a <= b THEN a ELSE b

\* Rust's integer `/` truncates toward zero
RustDiv(a, b) == IF a >= 0 THEN a \div b ELSE -((-a) \div b)

\* Rust's integer `%` is the remainder of the truncating division
RustRem(a, b) == a - b * RustDiv(a, b)

\* f64::round() (half away from zero) followed by `as i32`, on tenths
RoundTenths(t) == IF t >= 0 THEN (t + 5) \div 10 ELSE -((-t + 5) \div 10)

\* Iterator::skip(n) / Iterator::take(n) on a sequence
Skip(s, n) == IF n >= Len(s) THEN <<>> ELSE SubSeq(s, n + 1, Len(s))

Take(s, n) == SubSeq(s, 1, Min(n, Len(s)))

\* 0-based indexing of a Vec; InBounds is the bounds check `v[i]` performs
InBounds(v, i) == i >= 0 /\ i < Len(v)

At(v, i) == v[i + 1]

---------------------------------------------------------------------------
(* Option<WeatherData> *)

NoData == [current_temp |-> 0, current_condition |-> "", forecast |-> <<>>]

None == [tag |-> "None", data |-> NoData]

Some(d) == [tag |-> "Some", data |-> d]

\* a panic unwinding out of the call (no value is returned)
Panic == [tag |-> "panic", data |-> NoData]

---------------------------------------------------------------------------
(* weather_code_to_condition *)

U8Max == 2^8 - 1

weather_code_to_condition_shifted(code) ==
    CASE code = 0 -> "Clear"
      [] code \in 1..3 -> "Cloudy"
      [] code \in 45..48 -> "Fog"
      [] code \in 51..67 -> "Rain"
      [] code \in 71..77 -> "Snow"
      [] code \in 80..82 -> "Showers"
      [] code \in 95..100 -> "Storm"
      [] OTHER -> "Unknown"

weather_code_to_condition(code) ==
    CASE code = 0 -> "Clear"
      [] code \in 1..3 -> "Cloudy"
      [] code \in 45..48 -> "Fog"
      [] code \in 51..67 -> "Rain"
      [] code \in 71..77 -> "Snow"
      [] code \in 80..82 -> "Showers"
      [] code \in 95..99 -> "Storm"
      [] OTHER -> "Unknown"

---------------------------------------------------------------------------
(* chrono::NaiveDate::parse_from_str(date, "%Y-%m-%d") and format("%a") *)

Digits == <<"0", "1", "2", "3", "4", "5", "6", "7", "8", "9">>

IsDigit(c) == \E i \in 1..10 : Digits[i] = c

DigitVal(c) == (CHOOSE i \in 1..10 : Digits[i] = c) - 1

\* number of leading digits of s from position p (1-based), at most w
RECURSIVE DigitRun(_, _, _)
DigitRun(s, p, w) ==
    IF w = 0 \/ p > Len(s) \/ ~IsDigit(s[p]) THEN 0
    ELSE 1 + DigitRun(s, p + 1, w - 1)

\* value of the n digits of s starting at p
RECURSIVE DigitsValue(_, _, _)
DigitsValue(s, p, n) ==
    IF n = 0 THEN 0
    ELSE 10 * DigitsValue(s, p, n - 1) + DigitVal(s[p + n - 1])

IsLeap(y) == (y % 4 = 0 /\ y % 100 # 0) \/ y % 400 = 0

DaysInMonth(y, m) ==
    CASE m \in {1, 3, 5, 7, 8, 10, 12} -> 31
      [] m \in {4, 6, 9, 11} -> 30
      [] OTHER -> IF IsLeap(y) THEN 29 ELSE 28

NoDate == [ok |-> FALSE, y |-> 0, m |-> 0, d |-> 0]

\* %Y takes 1..4 digits, %m and %d 1..2 digits, "-" is literal, and nothing
\* may follow; the fields must then name a day of the calendar.
ParseDate(s) ==
    LET ny == DigitRun(s, 1, 4)
        pm == 1 + ny + 1
        nm == DigitRun(s, pm, 2)
        pd == pm + nm + 1
        nd == DigitRun(s, pd, 2)
    IN  IF /\ ny >= 1
           /\ Len(s) >= pm /\ s[pm - 1] = "-"
           /\ nm >= 1
           /\ Len(s) >= pd /\ s[pd - 1] = "-"
           /\ nd >= 1
           /\ Len(s) = pd + nd - 1
        THEN LET y == DigitsValue(s, 1, ny)
                 m == DigitsValue(s, pm, nm)
                 d == DigitsValue(s, pd, nd)
             IN  IF m \in 1..12 /\ d >= 1 /\ d <= DaysInMonth(y, m)
                 THEN [ok |-> TRUE, y |-> y, m |-> m, d |-> d]
                 ELSE NoDate
        ELSE NoDate

WeekdayNames == <<"Sun", "Mon", "Tue", "Wed", "Thu", "Fri", "Sat">>

MonthShift == <<0, 3, 2, 5, 0, 3, 5, 1, 4, 6, 2, 4>>

\* format("%a"): the short weekday name of a calendar day
Weekday(y, m, d) ==
    LET yy == IF m < 3 THEN y - 1 ELSE y
    IN  WeekdayNames[((yy + yy \div 4 - yy \div 100 + yy \div 400
                        + MonthShift[m] + d) % 7) + 1]

day_name_unwrap_or_default(date) ==
    LET p == ParseDate(date)
    IN  IF p.ok THEN Weekday(p.y, p.m, p.d) ELSE ""

\* parse_from_str(..).map(|d| d.format("%a").to_string()).unwrap_or_else(|_| "???")
day_name(date) ==
    LET p == ParseDate(date)
    IN  IF p.ok THEN Weekday(p.y, p.m, p.d) ELSE "???"

---------------------------------------------------------------------------
(* fetch_weather *)

\* response.json(): the body must be JSON of the OpenMeteoResponse shape, and
\* every weather_code must fit the u8 it is declared as
Decodes(r) ==
    /\ r.kind = "json"
    /\ r.current.weather_code \in 0..U8Max
    /\ \A i \in 1..Len(r.daily.weather_code) : r.daily.weather_code[i] \in 0..U8Max

forecast_idx_no_offset(i) == i

\* let idx = i + 1
forecast_idx(i) == i + 1

\* data.daily.time.iter().skip(1).take(7)
forecast_dates(daily) == Take(Skip(daily.time, 1), 7)

\* the three indexings of the closure are all in bounds for entry i
EntryInBounds(daily, i) ==
    /\ InBounds(daily.temperature_2m_max, forecast_idx(i))
    /\ InBounds(daily.temperature_2m_min, forecast_idx(i))
    /\ InBounds(daily.weather_code, forecast_idx(i))

\* the closure of .enumerate().map(|(i, date)| ...)
forecast_day(daily, i, date) ==
    [day_name |-> day_name(date),
     high |-> At(daily.temperature_2m_max, forecast_idx(i)),
     low |-> At(daily.temperature_2m_min, forecast_idx(i)),
     condition |-> weather_code_to_condition(At(daily.weather_code, forecast_idx(i)))]

fetch_weather(r) ==
    IF r.kind = "transport_error" THEN None
    ELSE IF ~Decodes(r) THEN None
    ELSE LET dates == forecast_dates(r.daily)
         IN  IF \E k \in 1..Len(dates) : ~EntryInBounds(r.daily, k - 1)
             THEN Panic
             ELSE Some([current_temp |-> r.current.temperature_2m,
                        current_condition |->
                            weather_code_to_condition(r.current.weather_code),
                        forecast |->
                            [k \in 1..Len(dates) |->
                                forecast_day(r.daily, k - 1, dates[k])]])

---------------------------------------------------------------------------
(* render, render_time_date, render_weather *)

\* Layout::vertical([Length(4), Length(1), Length(1), Length(5)]).flex(Flex::Center)
WeatherLayout == <<4, 1, 1, 5>>

RECURSIVE SumSeq(_)
SumSeq(s) == IF s = <<>> THEN 0 ELSE s[1] + SumSeq(Tail(s))

\* Terminal heights of the model.  With Flex::Center every area gets exactly
\* its Length when the lengths fit the panel, which they do for these
\* heights (two rows are the panel's border).
TermRows == {SumSeq(WeatherLayout) + 2, 24, 40}

\* block.inner(area) of a Borders::ALL block
inner_height(rows) == IF rows >= 2 THEN rows - 2 ELSE 0

\* height of forecast_area, the fourth area of the layout
forecast_area_height(inner) == WeatherLayout[4]

\* format!("{} {}c/{}c {}", day_name, low.round() as i32, high.round() as i32, condition)
forecast_line(day) ==
    <<day.day_name, RoundTenths(day.low), "c/", RoundTenths(day.high), "c", day.condition>>

\* A Paragraph draws its lines top down and stops at the bottom of its area
paragraph_rows(lines, height) == Take(lines, height)

BlankRegion == [loading |-> FALSE, current_text |-> <<>>, condition_text |-> "",
                forecast_rows |-> <<>>]

render_weather(w, rows) ==
    IF w.tag # "Some"
    THEN [BlankRegion EXCEPT !.loading = TRUE]
    ELSE LET forecast_lines ==
                 [k \in 1..Len(w.data.forecast) |-> forecast_line(w.data.forecast[k])]
         IN  [loading |-> FALSE,
              current_text |-> <<RoundTenths(w.data.current_temp), "c">>,
              condition_text |-> w.data.current_condition,
              forecast_rows |->
                  paragraph_rows(forecast_lines,
                                 forecast_area_height(inner_height(rows)))]

\* let separator = if show_colon { ":" } else { " " }
separator(colon) == IF colon THEN ":" ELSE " "

render(colon, w, rows) ==
    [drawn |-> TRUE, separator |-> separator(colon),
     weather_region |-> render_weather(w, rows)]

\* the screen after terminal.clear() and the two Clear redraws
ClearedFrame == [drawn |-> FALSE, separator |-> " ", weather_region |-> BlankRegion]

---------------------------------------------------------------------------
(* Blink phase *)

BlinkHalfPeriod == 500

\* let show_colon = (now.timestamp_millis() / 500) % 2 == 0   (i64 arithmetic)
blink_on(t_ms) == RustRem(RustDiv(t_ms, BlinkHalfPeriod), 2) = 0

---------------------------------------------------------------------------
(* HTTP outcomes fetch_weather can meet: the inputs of the model *)

Digit(n) == Digits[n + 1]

\* the provider's "YYYY-MM-DD"
FormatDate(y, m, d) ==
    <<Digit(y \div 1000), Digit((y \div 100) % 10), Digit((y \div 10) % 10),
      Digit(y % 10), "-", Digit(m \div 10), Digit(m % 10), "-",
      Digit(d \div 10), Digit(d % 10)>>

\* i-th day (i = 1 is today) of a response starting on 2024-01-01, or on
\* 2024-02-25 so that the week crosses the leap day
SampleDate(start, i) ==
    IF start = "jan" THEN FormatDate(2024, 1, i)
    ELSE IF 24 + i <= 29 THEN FormatDate(2024, 2, 24 + i)
    ELSE FormatDate(2024, 3, i - 5)

SampleCodes == <<1, 0, 61, 45, 71, 80, 95, 150, 3, 48, 99>>

SampleCode(i) == SampleCodes[((i - 1) % Len(SampleCodes)) + 1]

SampleMax(i) == 250 + 7 * i - (i % 2)

SampleMin(i) == 155 - 3 * i + 5 * (i % 3)

EmptyDaily == [time |-> <<>>, weather_code |-> <<>>,
               temperature_2m_max |-> <<>>, temperature_2m_min |-> <<>>]

SampleDaily(start, nt, nc, nx, nn) ==
    [time |-> [i \in 1..nt |-> SampleDate(start, i)],
     weather_code |-> [i \in 1..nc |-> SampleCode(i)],
     temperature_2m_max |-> [i \in 1..nx |-> SampleMax(i)],
     temperature_2m_min |-> [i \in 1..nn |-> SampleMin(i)]]

SampleCurrent == [temperature_2m |-> 214, weather_code |-> 2]

TransportError == [kind |-> "transport_error", current |-> SampleCurrent,
                   daily |-> EmptyDaily]

\* a body that is not JSON of the expected shape
MalformedBody == [kind |-> "malformed", current |-> SampleCurrent, daily |-> EmptyDaily]

JsonBody(current, daily) == [kind |-> "json", current |-> current, daily |-> daily]

\* the response the provider sends: 8 days, all arrays of the same length
GoodResponse(start) == JsonBody(SampleCurrent, SampleDaily(start, 8, 8, 8, 8))

\* decodable bodies whose daily arrays have any lengths up to MaxDaily
LengthFamily ==
    {JsonBody(SampleCurrent, SampleDaily("jan", nt, nc, nx, nn)) :
        nt \in 0..MaxDaily, nc \in 0..MaxDaily, nx \in 0..MaxDaily, nn \in 0..MaxDaily}

CodeRange == (0 - CodeSlack)..(U8Max + CodeSlack)

WithCurrentCode(r, c) == [r EXCEPT !.current.weather_code = c]

WithDailyCode(r, i, c) == [r EXCEPT !.daily.weather_code[i + 1] = c]

\* 8-day bodies in which one weather code, the current one or a daily one,
\* is any integer of CodeRange
CodeFamily ==
    {WithCurrentCode(GoodResponse("jan"), c) : c \in CodeRange}
    \cup {WithDailyCode(GoodResponse("jan"), i, c) : i \in 0..7, c \in CodeRange}

InvalidDates ==
    { <<>>,
      <<"n", "/", "a">>,
      FormatDate(2024, 13, 1),
      FormatDate(2023, 2, 29),
      FormatDate(2024, 4, 31),
      FormatDate(2024, 1, 0),
      FormatDate(2024, 1, 2) \o <<"T", "0", "0">>,
      <<"2", "0", "2", "4", "0", "1", "0", "2">>,
      <<"0", "2", "/", "0", "1", "/", "2", "0", "2", "4">> }

WithDate(r, i, s) == [r EXCEPT !.daily.time[i + 1] = s]

\* 8-day bodies in which the time entry of one index is not a date
BadDateFamily ==
    {WithDate(GoodResponse(start), i, s) :
        start \in {"jan", "feb"}, i \in 0..7, s \in InvalidDates}

Responses ==
    {TransportError, MalformedBody, GoodResponse("jan"), GoodResponse("feb")}
    \cup LengthFamily \cup CodeFamily \cup BadDateFamily

---------------------------------------------------------------------------
(* History of a run of the display loop *)

NoEvent == [type |-> "none", code |-> ""]

InitHist ==
    [fetches |-> 0,          \* fetch_weather invocations
     draws |-> 0,            \* render calls
     iter_fetches |-> 0,     \* invocations in the current iteration
     due_at_top |-> FALSE,   \* the iteration began 1800 s or more after the reset
     last_ok |-> None,       \* result of the most recent successful fetch
     attempt_end |-> 0,      \* instant the most recent attempt returned
     prev_tag |-> "",        \* what the attempt before the most recent returned
     invoke_gap |-> 0,       \* at the most recent invocation: clock - attempt_end
     stalls |-> 0,           \* long stalls of the process so far
     rows |-> 0]             \* terminal height of the last draw

---------------------------------------------------------------------------
(* SpecFetch: one fetch_weather call on each modelled outcome, then a draw *)

InitFetch ==
    /\ pc = "fetch_call"
    /\ status = "running"
    /\ resp \in Responses
    /\ result = None
    /\ weather = None
    /\ last_weather_fetch = 0
    /\ clock = 0
    /\ now_ms = 0
    /\ show_colon = TRUE
    /\ frame = ClearedFrame
    /\ lastEvent = NoEvent
    /\ iter = 0
    /\ hist = InitHist

FetchCall ==
    /\ pc = "fetch_call"
    /\ result' = fetch_weather(resp)
    /\ pc' = IF result'.tag = "panic" THEN "panicked" ELSE "fetch_returned"
    /\ status' = IF result'.tag = "panic" THEN "panic" ELSE status
    /\ hist' = [hist EXCEPT !.fetches = 1]
    /\ UNCHANGED <<weather, last_weather_fetch, clock, now_ms, show_colon, frame,
                   resp, lastEvent, iter>>

RenderResult ==
    /\ pc = "fetch_returned"
    /\ \E rows \in TermRows :
         /\ frame' = render(show_colon, result, rows)
         /\ hist' = [hist EXCEPT !.draws = 1, !.rows = rows]
    /\ pc' = "rendered"
    /\ UNCHANGED <<status, weather, last_weather_fetch, clock, now_ms, show_colon,
                   resp, result, lastEvent, iter>>

NextFetch == FetchCall \/ RenderResult

SpecFetch == InitFetch /\ [][NextFetch]_vars

---------------------------------------------------------------------------
(* SpecBlink: the blink phase of one iteration, for each timestamp *)

InitBlink ==
    /\ pc = "blink_top"
    /\ status = "running"
    /\ now_ms \in (0 - BlinkRange)..BlinkRange
    /\ show_colon = TRUE
    /\ resp = TransportError
    /\ result = None
    /\ weather = None
    /\ last_weather_fetch = 0
    /\ clock = 0
    /\ frame = ClearedFrame
    /\ lastEvent = NoEvent
    /\ iter = 0
    /\ hist = InitHist

BlinkStep ==
    /\ pc = "blink_top"
    /\ show_colon' = blink_on(now_ms)
    /\ pc' = "blink_done"
    /\ UNCHANGED <<status, weather, last_weather_fetch, clock, now_ms, frame,
                   resp, result, lastEvent, iter, hist>>

NextBlink == BlinkStep

SpecBlink == InitBlink /\ [][NextBlink]_vars

---------------------------------------------------------------------------
(* Spec: the display loop of main() *)

\* const WEATHER_UPDATE_INTERVAL: Duration = Duration::from_secs(30 * 60), in ms
WEATHER_UPDATE_INTERVAL == 30 * 60 * 1000

\* event::poll(Duration::from_millis(500))
PollTimeout == 500

\* how long the HTTP request can block
FetchDelays == {0, PollTimeout}

\* wall clock readings of Local::now()
WallSamples == {499, 500}

\* a decodable body whose temperature_2m_max array is one entry short
ShortMaxResponse == JsonBody(SampleCurrent, SampleDaily("jan", 8, 8, 7, 8))

\* HTTP outcomes met by the running loop
LoopResponses ==
    {TransportError, GoodResponse("jan"), GoodResponse("feb"), ShortMaxResponse}

NoResponse == [kind |-> "none", current |-> SampleCurrent, daily |-> EmptyDaily]

Key(code) == [type |-> "Key", code |-> code]

\* what event::read() can return: key events and events that are not keys
Events == {Key("q"), Key("Esc"), Key("Q"), [type |-> "Resize", code |-> ""]}

should_quit_any_case(ev) == ev.type = "Key" /\ ev.code \in {"q", "Q", "Esc"}

\* if let Event::Key(key) = .. { if matches!(key.code, KeyCode::Char('q') | KeyCode::Esc)
should_quit(ev) == ev.type = "Key" /\ ev.code \in {"q", "Esc"}

refresh_due_strict(elapsed) == elapsed > WEATHER_UPDATE_INTERVAL

\* if last_weather_fetch.elapsed() >= WEATHER_UPDATE_INTERVAL
refresh_due(elapsed) == elapsed >= WEATHER_UPDATE_INTERVAL

refreshed_weather_overwrite(old, new) == new

\* if let Some(new_weather) = fetch_weather() { weather = Some(new_weather); }
refreshed_weather(old, new) == IF new.tag = "Some" THEN new ELSE old

reset_instant_on_success(old, new, now) == IF new.tag = "Some" THEN now ELSE old

\* last_weather_fetch = Instant::now();   (outside the if let)
reset_instant(old, new, now) == now

Init ==
    /\ pc = "startup"
    /\ status = "running"
    /\ weather = None
    /\ last_weather_fetch = 0
    /\ clock = 0
    /\ now_ms = 0
    /\ show_colon = TRUE
    /\ frame = ClearedFrame
    /\ resp = NoResponse
    /\ result = None
    /\ lastEvent = NoEvent
    /\ iter = 0
    /\ hist = InitHist

\* `?` on a terminal call that failed: the closure returns Err
ExitErr ==
    /\ pc' = "exited"
    /\ status' = "err"

\* terminal.clear()?; two draws of Clear
Startup ==
    /\ pc = "startup"
    /\ \/ /\ ExitErr
          /\ frame' = frame
       \/ /\ pc' = "startup_fetch"
          /\ status' = status
          /\ frame' = ClearedFrame
    /\ UNCHANGED <<weather, last_weather_fetch, clock, now_ms, show_colon,
                   resp, result, lastEvent, iter, hist>>

\* the history after a fetch_weather call invoked at `clock` that returned
\* res at instant t
Attempted(res, t) ==
    [hist EXCEPT !.fetches = @ + 1,
                 !.iter_fetches = @ + 1,
                 !.last_ok = IF res.tag = "Some" THEN res ELSE @,
                 !.invoke_gap = clock - hist.attempt_end,
                 !.prev_tag = result.tag,
                 !.attempt_end = IF res.tag = "panic" THEN @ ELSE t]

\* let mut weather = fetch_weather(); let mut last_weather_fetch = Instant::now();
StartupFetch ==
    /\ pc = "startup_fetch"
    /\ \E r \in LoopResponses, d \in FetchDelays :
         /\ resp' = r
         /\ result' = fetch_weather(r)
         /\ clock' = clock + d
         /\ hist' = Attempted(result', clock')
         /\ IF result'.tag = "panic"
            THEN /\ pc' = "exited"
                 /\ status' = "panic"
                 /\ UNCHANGED <<weather, last_weather_fetch>>
            ELSE /\ pc' = "top"
                 /\ status' = status
                 /\ weather' = result'
                 /\ last_weather_fetch' = clock'
    /\ UNCHANGED <<now_ms, show_colon, frame, lastEvent, iter>>

\* let now = Local::now(); let show_colon = ..
LoopTop ==
    /\ pc = "top"
    /\ iter < MaxIter
    /\ iter' = iter + 1
    /\ \E t \in WallSamples :
         /\ now_ms' = t
         /\ show_colon' = blink_on(t)
    /\ hist' = [hist EXCEPT
                  !.iter_fetches = 0,
                  !.due_at_top = (clock - last_weather_fetch >= WEATHER_UPDATE_INTERVAL)]
    /\ pc' = "draw"
    /\ UNCHANGED <<status, weather, last_weather_fetch, clock, frame,
                   resp, result, lastEvent>>

\* terminal.draw(|frame| render(frame, show_colon, weather.as_ref()))?
Draw ==
    /\ pc = "draw"
    /\ \/ /\ ExitErr
          /\ UNCHANGED <<frame, hist>>
       \/ /\ \E rows \in TermRows :
               /\ frame' = render(show_colon, weather, rows)
               /\ hist' = [hist EXCEPT !.draws = @ + 1]
          /\ pc' = "poll"
          /\ status' = status
    /\ UNCHANGED <<weather, last_weather_fetch, clock, now_ms, show_colon,
                   resp, result, lastEvent, iter>>

\* if event::poll(500ms)? { if let Event::Key(key) = event::read()? { .. break Ok(()) } }
Poll ==
    /\ pc = "poll"
    /\ \/ /\ ExitErr
          /\ UNCHANGED <<clock, lastEvent>>
       \/ \* poll returned false: the timeout ran out
          /\ clock' = clock + PollTimeout
          /\ lastEvent' = NoEvent
          /\ pc' = "refresh_check"
          /\ status' = status
       \/ \* poll returned true and read gave the event
          /\ \E ev \in Events :
               /\ clock' = clock
               /\ lastEvent' = ev
               /\ IF should_quit(ev)
                  THEN pc' = "exited" /\ status' = "ok"
                  ELSE pc' = "refresh_check" /\ status' = status
    /\ UNCHANGED <<weather, last_weather_fetch, now_ms, show_colon, frame,
                   resp, result, iter, hist>>

\* the refresh is not due: the iteration ends
SkipRefresh ==
    /\ pc = "refresh_check"
    /\ ~refresh_due(clock - last_weather_fetch)
    /\ pc' = "top"
    /\ UNCHANGED <<status, weather, last_weather_fetch, clock, now_ms, show_colon,
                   frame, resp, result, lastEvent, iter, hist>>

\* the refresh is due: one fetch_weather call, then the reset of the instant
Refresh ==
    /\ pc = "refresh_check"
    /\ refresh_due(clock - last_weather_fetch)
    /\ \E r \in LoopResponses, d \in FetchDelays :
         /\ resp' = r
         /\ result' = fetch_weather(r)
         /\ clock' = clock + d
         /\ hist' = Attempted(result', clock')
         /\ IF result'.tag = "panic"
            THEN /\ pc' = "exited"
                 /\ status' = "panic"
                 /\ UNCHANGED <<weather, last_weather_fetch>>
            ELSE /\ pc' = "top"
                 /\ status' = status
                 /\ weather' = refreshed_weather(weather, result')
                 /\ last_weather_fetch' = reset_instant(last_weather_fetch, result', clock')
    /\ UNCHANGED <<now_ms, show_colon, frame, lastEvent, iter>>

\* the process is held up for a refresh interval between two steps
Stall ==
    /\ pc \in {"top", "draw", "poll", "refresh_check"}
    /\ hist.stalls < MaxStalls
    /\ clock' = clock + WEATHER_UPDATE_INTERVAL
    /\ hist' = [hist EXCEPT !.stalls = @ + 1]
    /\ UNCHANGED <<pc, status, weather, last_weather_fetch, now_ms, show_colon,
                   frame, resp, result, lastEvent, iter>>

Next ==
    \/ Startup
    \/ StartupFetch
    \/ LoopTop
    \/ Draw
    \/ Poll
    \/ SkipRefresh
    \/ Refresh
    \/ Stall

Spec == Init /\ [][Next]_vars

---------------------------------------------------------------------------
(* Claims about the display loop (Spec) *)

QuitKeys == {Key("q"), Key("Esc")}

\* C1: a refresh that returns absence leaves the snapshot as it was and one
\* that returns a snapshot replaces it: in every state the snapshot held
\* by the loop is the result of the most recent successful fetch (absent only
\* while no fetch has succeeded), so once present it is never absent again.
C1_SnapshotIsLastSuccess ==
    /\ weather = hist.last_ok
    /\ weather.tag \in {"None", "Some"}

\* a failed refresh after a successful fetch: the stale snapshot is retained
C1_Witness ==
    /\ pc = "top"
    /\ hist.fetches >= 2
    /\ result.tag = "None"
    /\ weather.tag = "Some"

\* C3: after every attempt that returned (a snapshot or absence) the instant
\* of the last refresh is the instant the attempt returned, and every
\* invocation after the first happens 1800 s or more after the attempt
\* before it returned.
C3_ResetAfterEveryAttempt ==
    /\ (hist.fetches >= 1 /\ status # "panic") => last_weather_fetch = hist.attempt_end
    /\ hist.fetches >= 2 => hist.invoke_gap >= 1800 * 1000

\* a fetch invoked after a failed one
C3_Witness ==
    /\ pc = "top"
    /\ hist.fetches >= 2
    /\ hist.prev_tag = "None"
    /\ hist.invoke_gap >= 1800 * 1000

\* C4 as stated: an iteration that begins 1800 s or more after the last
\* reset has, when it is over, invoked the Weather Client exactly once
\* (iterations cut short by a terminal failure are left out).
C4_EveryDueIterationFetches ==
    (hist.due_at_top /\ pc \in {"top", "exited"} /\ status # "err")
        => hist.iter_fetches = 1

\* C4 amended: an iteration that begins 1800 s or more after the last reset
\* invokes the Weather Client exactly once, after its own wait-for-input
\* step and before the next one, unless that wait reads a quit key or a
\* terminal failure ends the loop, in which case it invokes it not at all.
C4_DueIterationFetchesUnlessQuit ==
    hist.due_at_top =>
        /\ pc \in {"draw", "poll", "refresh_check"} => hist.iter_fetches = 0
        /\ pc = "top" => hist.iter_fetches = 1
        /\ (pc = "exited" /\ status = "panic") => hist.iter_fetches = 1
        /\ (pc = "exited" /\ status \in {"ok", "err"}) => hist.iter_fetches = 0

\* a due iteration that ran to its end and fetched once
C4_Witness ==
    /\ hist.due_at_top
    /\ pc = "top"
    /\ hist.iter_fetches = 1
    /\ lastEvent = NoEvent

\* C5: the loop has ended with success exactly when the last wait-for-input
\* step read a key event whose key is 'q' or Escape; the loop is then over
\* at once: the iteration made no fetch and every iteration drew once.
C5_QuitExactlyOnQuitKey ==
    /\ status = "ok" <=> lastEvent \in QuitKeys
    /\ status = "ok" => (pc = "exited" /\ hist.iter_fetches = 0 /\ hist.draws = iter)
    /\ (lastEvent.type \in {"none", "Resize"} \/ lastEvent = Key("Q"))
           => status # "ok"

\* 'q' read in the second iteration, after an iteration that read another key
C5_Witness ==
    /\ status = "ok"
    /\ lastEvent = Key("q")
    /\ iter = 2

---------------------------------------------------------------------------
(* Claims about fetch_weather and the renderer (SpecFetch) *)

Returned == pc \in {"fetch_returned", "rendered", "panicked"}

\* the body is JSON with 8 entries in each daily array
EightDays(r) ==
    /\ r.kind = "json"
    /\ Len(r.daily.time) = 8
    /\ Len(r.daily.weather_code) = 8
    /\ Len(r.daily.temperature_2m_max) = 8
    /\ Len(r.daily.temperature_2m_min) = 8

\* C2 as stated: fetch_weather returns a snapshot or absence on every
\* outcome, and absence on every transport or decode failure.
C2_NeverPanics ==
    Returned =>
        /\ result.tag \in {"Some", "None"}
        /\ resp.kind \in {"transport_error", "malformed"} => result = None

\* the range table of the specification
TableLabel(code) ==
    IF code = 0 THEN "Clear"
    ELSE IF code >= 1 /\ code <= 3 THEN "Cloudy"
    ELSE IF code >= 45 /\ code <= 48 THEN "Fog"
    ELSE IF code >= 51 /\ code <= 67 THEN "Rain"
    ELSE IF code >= 71 /\ code <= 77 THEN "Snow"
    ELSE IF code >= 80 /\ code <= 82 THEN "Showers"
    ELSE IF code >= 95 /\ code <= 99 THEN "Storm"
    ELSE "Unknown"

\* the labels of a returned snapshot are those of the table
LabelsFollowTable ==
    /\ result.data.current_condition = TableLabel(resp.current.weather_code)
    /\ \A k \in 1..Len(result.data.forecast) :
         result.data.forecast[k].condition = TableLabel(resp.daily.weather_code[k + 1])

\* C6 as stated: for every integer weather code of an 8-day response, the
\* label derived from it is the one of the range table.
C6_EveryIntegerCodeLabelled ==
    (Returned /\ EightDays(resp)) =>
        /\ result.tag = "Some"
        /\ LabelsFollowTable

\* C6 amended: for every weather code from 0 to 255 the label is the one of
\* the range table (100..255 give Unknown); a response in which a code is
\* outside 0..255 does not decode, and fetch_weather returns absence.
C6_EveryU8CodeLabelled ==
    (Returned /\ EightDays(resp)) =>
        IF /\ resp.current.weather_code \in 0..255
           /\ \A i \in 1..8 : resp.daily.weather_code[i] \in 0..255
        THEN result.tag = "Some" /\ LabelsFollowTable
        ELSE result = None

\* code 100, just past the last range of the table, in tomorrow's entry
C6_Witness ==
    /\ pc = "fetch_returned"
    /\ EightDays(resp)
    /\ resp.daily.weather_code[2] = 100
    /\ result.tag = "Some"
    /\ result.data.forecast[1].condition = "Unknown"

\* C7: a decodable response with 8 daily entries gives a forecast of exactly
\* 7 entries, entry k (1-based here) built from index k (0-based) of the
\* time, temperature_2m_max, temperature_2m_min and weather_code arrays.
C7_ForecastSkipsToday ==
    (Returned /\ EightDays(resp) /\ Decodes(resp)) =>
        /\ result.tag = "Some"
        /\ Len(result.data.forecast) = 7
        /\ \A k \in 1..7 :
             /\ result.data.forecast[k].day_name = day_name(resp.daily.time[k + 1])
             /\ result.data.forecast[k].high = resp.daily.temperature_2m_max[k + 1]
             /\ result.data.forecast[k].low = resp.daily.temperature_2m_min[k + 1]
             /\ result.data.forecast[k].condition =
                    weather_code_to_condition(resp.daily.weather_code[k + 1])

\* the response of 2024-01-01: the forecast starts with Tuesday 2024-01-02
C7_Witness ==
    /\ pc = "fetch_returned"
    /\ resp = GoodResponse("jan")
    /\ Len(result.data.forecast) = 7
    /\ result.data.forecast[1].day_name = "Tue"
    /\ result.data.forecast[7].day_name = "Mon"

\* C8 as stated: a frame drawn from a snapshot with a 7-day forecast shows
\* one line per forecast day, all 7, in forecast order.
C8_WholeForecastShown ==
    (pc = "rendered" /\ result.tag = "Some" /\ Len(result.data.forecast) = 7) =>
        /\ Len(frame.weather_region.forecast_rows) = 7
        /\ \A k \in 1..7 :
             frame.weather_region.forecast_rows[k][1] = result.data.forecast[k].day_name

---------------------------------------------------------------------------
(* Claim about the blink phase (SpecBlink) *)

\* C9 as stated: the blink phase computed from a signed millisecond
\* timestamp has period 1000 ms: the phase shown for a timestamp is the
\* phase of the timestamp 1000 ms later.
C9_BlinkPeriodic ==
    pc = "blink_done" => show_colon = blink_on(now_ms + 1000)

=============================================================================
